---- MODULE Spec2Model ----
(***************************************************************************)
(* Voice-to-mood pipeline of MoodMate: the /transcribe and /analyze        *)
(* handlers (app/routes/voice.py), the transcription engine                *)
(* (app/services/speech_to_text.py), the emotion normalizer                *)
(* (app/services/emotion_detection.py), POST /mood/add                     *)
(* (app/routes/mood.py) and the moods table (app/models/mood.py).          *)
(*                                                                         *)
(* Conventions.  A text is a sequence of one-character strings.  Python's  *)
(* None is NoneVal for a nullable text and <<>> for an Optional value      *)
(* whose present form is <<v>>.  A probability is an integer number of     *)
(* hundredths (75 is 0.75), so confidence is in hundredths as well.        *)
(* Every action is one run of a handler between two suspension points      *)
(* (await) of the event loop.                                              *)
(***************************************************************************)
EXTENDS Integers, Sequences, FiniteSets, TLC

(***************************************************************************)
(* Bounds of the model.                                                    *)
(***************************************************************************)
\* Number of requests that arrive in one run.
MaxReq == 2
\* Normalizer inputs: levels run from 1 - LevelSpan to 10 + LevelSpan, a
\* probability map has at most MaxMapLen labels, a scored list MaxListLen items.
LevelSpan == 2
MaxMapLen == 4
MaxListLen == 2
\* A Whisper result handed to the text extraction has at most MaxSegments segments.
MaxSegments == 2

\* Request slots: the requests that can be in flight at the same time.
Slots == {1, 2}

Users == {"u1", "u2"}
Today == "2024-05-02"
Dates == {"2024-05-01", Today}

(***************************************************************************)
(* Text helpers (Python str methods).                                      *)
(***************************************************************************)
NoneVal == <<"None">>

Truthy(x) == x /= NoneVal /\ x /= <<>>

RECURSIVE LStrip(_)
LStrip(s) == IF s /= <<>> /\ Head(s) = " " THEN LStrip(Tail(s)) ELSE s

RECURSIVE RStrip(_)
RStrip(s) ==
    IF s /= <<>> /\ s[Len(s)] = " " THEN RStrip(SubSeq(s, 1, Len(s) - 1)) ELSE s

\* str.strip()
Strip(s) == RStrip(LStrip(s))

\* str.lower() on the letters the model uses
LowerChar(c) ==
    CASE c = "A" -> "a" [] c = "D" -> "d" [] c = "V" -> "v" [] c = "W" -> "w"
      [] OTHER -> c
Lower(s) == [i \in 1..Len(s) |-> LowerChar(s[i])]

\* needle in hay
Contains(hay, needle) ==
    \E i \in 1..(Len(hay) - Len(needle) + 1) :
        SubSeq(hay, i, i + Len(needle) - 1) = needle

\* ",".join(tags)
RECURSIVE CsvJoin(_)
CsvJoin(tags) ==
    IF tags = <<>> THEN <<>>
    ELSE IF Len(tags) = 1 THEN tags[1]
    ELSE tags[1] \o <<",">> \o CsvJoin(Tail(tags))

\* s.split(',')
RECURSIVE CsvSplitFrom(_, _)
CsvSplitFrom(s, cur) ==
    IF s = <<>> THEN <<cur>>
    ELSE IF Head(s) = "," THEN <<cur>> \o CsvSplitFrom(Tail(s), <<>>)
    ELSE CsvSplitFrom(Tail(s), Append(cur, Head(s)))
CsvSplit(s) == CsvSplitFrom(s, <<>>)

\* " ".join(texts)
RECURSIVE SpaceJoin(_)
SpaceJoin(texts) ==
    IF texts = <<>> THEN <<>>
    ELSE IF Len(texts) = 1 THEN texts[1]
    ELSE texts[1] \o <<" ">> \o SpaceJoin(Tail(texts))

Max2(a, b) == IF a >= b THEN a ELSE b
Min2(a, b) == IF a <= b THEN a ELSE b

(***************************************************************************)
(* Emotion normalizer (app/services/emotion_detection.py).                 *)
(***************************************************************************)
\* Variant of the bucketing whose buckets end one level early.
convert_buckets_end_early(emotion_level) ==
    IF emotion_level < 2 THEN 1
    ELSE IF emotion_level < 4 THEN 2
    ELSE IF emotion_level < 6 THEN 3
    ELSE IF emotion_level < 8 THEN 4
    ELSE 5

\* emotion level 1..10 -> mood level 1..5
convert_emotion_level_to_mood_level(emotion_level) ==
    IF emotion_level <= 2 THEN 1
    ELSE IF emotion_level <= 4 THEN 2
    ELSE IF emotion_level <= 6 THEN 3
    ELSE IF emotion_level <= 8 THEN 4
    ELSE 5

\* int(round(p * 10)) for p given in hundredths: Python rounds halves to even
RoundTimes10(p) ==
    LET q == p \div 10
        r == p % 10
    IN  IF r < 5 THEN q
        ELSE IF r > 5 THEN q + 1
        ELSE IF q % 2 = 0 THEN q ELSE q + 1

\* Index of the first entry holding the largest probability.
FirstMaxIndex(pairs) ==
    CHOOSE i \in 1..Len(pairs) :
        /\ \A j \in 1..Len(pairs) : pairs[j].p <= pairs[i].p
        /\ \A j \in 1..(i - 1) : pairs[j].p < pairs[i].p

RemoveAt(s, i) == SubSeq(s, 1, i - 1) \o SubSeq(s, i + 1, Len(s))

\* sorted(items, key=probability, reverse=True): stable, descending
RECURSIVE SortDesc(_)
SortDesc(pairs) ==
    IF pairs = <<>> THEN <<>>
    ELSE LET i == FirstMaxIndex(pairs)
         IN  <<pairs[i]>> \o SortDesc(RemoveAt(pairs, i))

RECURSIVE LabelsAtLeast(_, _)
LabelsAtLeast(pairs, threshold) ==
    IF pairs = <<>> THEN <<>>
    ELSE IF Head(pairs).p >= threshold
         THEN <<Head(pairs).label>> \o LabelsAtLeast(Tail(pairs), threshold)
         ELSE LabelsAtLeast(Tail(pairs), threshold)

Labels(pairs) == [i \in 1..Len(pairs) |-> pairs[i].label]

NeutralText == <<"n", "e", "u", "t", "r", "a", "l">>

format_probability_based_result(emotion_probs) ==
    IF emotion_probs = <<>>
    THEN [emotion |-> NeutralText, emotion_level |-> 5, emotions |-> <<>>,
          mood_level |-> 3, confidence |-> 0, tags |-> <<>>]
    ELSE LET sorted_emotions == SortDesc(emotion_probs)
             top_emotion == sorted_emotions[1].label
             highest_prob == sorted_emotions[1].p
             emotion_level == Max2(1, Min2(10, RoundTimes10(highest_prob)))
             above == LabelsAtLeast(sorted_emotions, 10)
             top_emotions ==
                 IF above /= <<>> THEN above
                 ELSE Labels(SubSeq(sorted_emotions, 1, Min2(3, Len(sorted_emotions))))
         IN  [emotion |-> top_emotion, emotion_level |-> emotion_level,
              emotions |-> top_emotions,
              mood_level |-> convert_emotion_level_to_mood_level(emotion_level),
              confidence |-> highest_prob, tags |-> top_emotions]

\* The dict the list branch builds: an entry whose label is empty or whose
\* probability is 0 ("or" chain over probability/prob/score) is skipped; a
\* repeated label keeps its first position and takes the later value.
RECURSIVE ListToProbs(_, _)
ListToProbs(items, acc) ==
    IF items = <<>> THEN acc
    ELSE LET it == Head(items)
             at == {i \in 1..Len(acc) : acc[i].label = it.label}
             next ==
                 IF it.label = <<>> \/ it.p = 0 THEN acc
                 ELSE IF at /= {}
                      THEN [acc EXCEPT ![CHOOSE i \in at : TRUE].p = it.p]
                      ELSE Append(acc, it)
         IN  ListToProbs(Tail(items), next)

DefaultResult ==
    [emotion |-> NeutralText, emotion_level |-> 5, emotions |-> <<NeutralText>>,
     mood_level |-> 3, confidence |-> 50, tags |-> <<NeutralText>>]

\* Lines 105-175.  A dict is tried as emotion + level first; 0 is falsy in the
\* "or" chain of line 107 and reads as an absent level.
format_emotion_result(raw) ==
    IF raw.shape \in {"leveled", "formatted"} /\ raw.emotion /= <<>> /\ raw.level /= 0
    THEN LET emotion_level == Max2(1, Min2(10, raw.level))
         IN  [emotion |-> raw.emotion, emotion_level |-> emotion_level,
              emotions |-> <<raw.emotion>>,
              mood_level |-> convert_emotion_level_to_mood_level(emotion_level),
              confidence |-> emotion_level * 10, tags |-> <<raw.emotion>>]
    ELSE IF raw.shape = "probmap"
    THEN format_probability_based_result(raw.probs)
    ELSE IF raw.shape = "formatted"
    THEN \* lines 143-152: the classifier's own fields, taken as they come
         [emotion |-> raw.emotion,
          emotion_level |-> IF raw.level = 0 THEN 5 ELSE raw.level,
          emotions |-> raw.emotions, mood_level |-> raw.mood_level,
          confidence |-> raw.confidence, tags |-> raw.tags]
    ELSE IF raw.shape = "list"
    THEN LET emotion_probs == ListToProbs(raw.probs, <<>>)
         IN  IF emotion_probs /= <<>>
             THEN format_probability_based_result(emotion_probs)
             ELSE DefaultResult
    ELSE DefaultResult

(***************************************************************************)
(* Transcription engine (app/services/speech_to_text.py).                  *)
(***************************************************************************)
PromptArtifact ==
    <<"d", "e", "s", "c", "r", "i", "b", "i", "n", "g", " ", "h", "o", "w", " ",
      "t", "h", "e", "y", " ", "f", "e", "e", "l">>

\* segment_texts: the stripped, non-empty segment texts, first appearance kept
RECURSIVE SegmentTexts(_, _)
SegmentTexts(segments, acc) ==
    IF segments = <<>> THEN acc
    ELSE LET seg_text == Strip(Head(segments))
             seen == \E i \in 1..Len(acc) : acc[i] = seg_text
         IN  SegmentTexts(Tail(segments),
                          IF seg_text /= <<>> /\ ~seen THEN Append(acc, seg_text) ELSE acc)

\* _transcribe: the text taken from one Whisper result
transcribe_text(result) ==
    LET main_text == Strip(result.text)
        segment_texts == SegmentTexts(result.segments, <<>>)
    IN  IF main_text = <<>> \/ main_text = <<".">>
           \/ Contains(Lower(main_text), PromptArtifact)
        THEN IF segment_texts /= <<>> THEN Strip(SpaceJoin(segment_texts))
             ELSE main_text
        ELSE main_text

\* _transcribe_with_openai: transcript.strip()
openai_text(result) == Strip(result.text)

\* What a backend call can produce: an exception, a text, an empty text with
\* two segments that carry the same words, a blank text.
Raised == [raised |-> TRUE, text |-> <<>>, segments |-> <<>>]
WhisperResult(text, segments) == [raised |-> FALSE, text |-> text, segments |-> segments]

BackendResults ==
    { Raised,
      WhisperResult(<<" ", "a">>, <<>>),
      WhisperResult(<<>>, << <<" ", "a">>, <<"a", " ">> >>),
      WhisperResult(<<" ">>, <<>>) }

\* What Whisper can answer with: the main text blank, a sentence, "." or the
\* prompt echoed back, and segments that are blank, repeated or distinct.
MainTexts ==
    { <<>>, <<" ">>, <<" ", "a">>, <<".">>, <<"b">>,
      <<"D">> \o Tail(PromptArtifact) \o <<".">> }
SegmentChoices == { <<>>, <<" ">>, <<" ", "a">>, <<"a", " ">>, <<"b">> }
WhisperInputs ==
    {WhisperResult(t, segs) :
        t \in MainTexts,
        segs \in UNION {[1..n -> SegmentChoices] : n \in 0..MaxSegments}}

\* Lines 15-40: the remote API is kept enabled only when its key is present.
ResolveUseOpenai(env_flag, api_key) == env_flag /\ api_key

\* Variant of UsesOpenai that looks at the credential alone.
UsesOpenaiKeyOnly(use_openai, api_key) == api_key

\* transcribe_audio line 62: the backend one call goes to.
UsesOpenai(use_openai, api_key) == use_openai /\ api_key

(***************************************************************************)
(* Classifier outputs (the JSON body the emotion API answers with).        *)
(***************************************************************************)
Joy == <<"j", "o", "y">>
Sad == <<"s", "a", "d">>
Angry == <<"a", "n", "g", "r", "y">>

RawLeveled(emotion, level) ==
    [shape |-> "leveled", emotion |-> emotion, level |-> level, probs |-> <<>>,
     emotions |-> <<>>, mood_level |-> 3, confidence |-> 0, tags |-> <<>>]
RawProbMap(probs) ==
    [shape |-> "probmap", emotion |-> <<>>, level |-> 0, probs |-> probs,
     emotions |-> <<>>, mood_level |-> 3, confidence |-> 0, tags |-> <<>>]
RawList(items) ==
    [shape |-> "list", emotion |-> <<>>, level |-> 0, probs |-> items,
     emotions |-> <<>>, mood_level |-> 3, confidence |-> 0, tags |-> <<>>]
RawFormatted(emotions, mood_level, confidence, tags) ==
    [shape |-> "formatted", emotion |-> <<>>, level |-> 0, probs |-> <<>>,
     emotions |-> emotions, mood_level |-> mood_level, confidence |-> confidence,
     tags |-> tags]
RawOther ==
    [shape |-> "other", emotion |-> <<>>, level |-> 0, probs |-> <<>>,
     emotions |-> <<>>, mood_level |-> 3, confidence |-> 0, tags |-> <<>>]

Pair(label, p) == [label |-> label, p |-> p]

ClassifierOutputs ==
    { RawLeveled(Joy, 8),
      RawProbMap(<<Pair(Sad, 150)>>),
      RawProbMap(<<Pair(Angry, 15), Pair(Sad, 35)>>),
      RawFormatted(<<Joy>>, 4, 80, <<Joy>>) }

\* What the normalizer can be handed: every shape format_emotion_result tells
\* apart, with levels outside 1..10 and probabilities outside 0..1
\* (probabilities in hundredths).
LevelInputs == (1 - LevelSpan)..(10 + LevelSpan)
Probabilities == {0 - 20, 0, 4, 10, 35, 150}
Calm == <<"c", "a", "l", "m">>
Fear == <<"f", "e", "a", "r">>
Awe == <<"a", "w", "e">>
ProbLabels == <<Joy, Sad, Angry, Calm, Fear, Awe>>

LeveledInputs == {RawLeveled(e, l) : e \in {Joy, <<>>}, l \in LevelInputs}

\* A map of n labels, in the order the JSON object lists them.
MapsOfLen(n) ==
    {[i \in 1..n |-> Pair(ProbLabels[i], f[i])] : f \in [1..n -> Probabilities]}
MapInputs == {RawProbMap(m) : m \in UNION {MapsOfLen(n) : n \in 0..MaxMapLen}}

\* A list of n items; an item can come without a label (0), and a label can
\* occur more than once.
ListsOfLen(n) ==
    {[i \in 1..n |-> Pair(IF f[i].label = 0 THEN <<>> ELSE ProbLabels[f[i].label],
                          f[i].p)] :
        f \in [1..n -> [label : 0..n, p : Probabilities]]}
ListInputs == {RawList(l) : l \in UNION {ListsOfLen(n) : n \in 0..MaxListLen}}

\* A dict that already has an "emotions" list; level 0 stands for an absent
\* "emotion_level" key.
FormattedInputs ==
    {[RawFormatted(<<Joy>>, ml, c, <<Joy>>) EXCEPT !.emotion = e, !.level = l] :
        ml \in {3, 4, 9}, c \in {0, 80, 150}, e \in {Joy, <<>>}, l \in {0, 6, 12}}

RawInputs ==
    LeveledInputs \cup MapInputs \cup ListInputs \cup FormattedInputs \cup {RawOther}

(***************************************************************************)
(* The moods table (app/models/mood.py) and the two writers of it.         *)
(***************************************************************************)
\* Variant of FindMood whose filter forgets the user.
FindMoodByDateOnly(st, user_id, d) ==
    LET found == {r \in st : r.date = d}
    IN  IF found = {} THEN <<>>
        ELSE <<CHOOSE r \in found : \A q \in found : r.id <= q.id>>

\* db.query(Mood).filter(user_id == .., date == ..).first(): <<>> or <<row>>
FindMood(st, user_id, d) ==
    LET found == {r \in st : r.user_id = user_id /\ r.date = d}
    IN  IF found = {} THEN <<>>
        ELSE <<CHOOSE r \in found : \A q \in found : r.id <= q.id>>

\* db.add + db.commit of a new row under UniqueConstraint('user_id', 'date')
DbInsert(st, row) ==
    IF \E r \in st : r.user_id = row.user_id /\ r.date = row.date
    THEN [ok |-> FALSE, store |-> st]
    ELSE [ok |-> TRUE, store |-> st \cup {row}]

\* The tags column: ",".join(tags) if tags else None
TagsColumn(tags) == IF tags /= <<>> THEN CsvJoin(tags) ELSE NoneVal

\* [tag.strip() for tag in row.tags.split(',')] if row.tags else []
TagsList(column) ==
    IF Truthy(column)
    THEN LET parts == CsvSplit(column) IN [i \in 1..Len(parts) |-> Strip(parts[i])]
    ELSE <<>>

\* [... for tag in ... if tag.strip()] of the /mood responses
NonEmptyOnly(tags_list) == SelectSeq(tags_list, LAMBDA t : t /= <<>>)

\* The mood_entry dict of the /analyze response.
MoodEntry(row) ==
    [id |-> row.id, userId |-> row.user_id, date |-> row.date,
     moodLevel |-> row.mood_level, tags |-> TagsList(row.tags), notes |-> row.notes]

DbFaults == {"none", "query", "commit"}

\* Variant of UpdateRow that forgets the assignment to notes.
UpdateRowKeepNotes(existing_mood, mood_level, tags, notes) ==
    [existing_mood EXCEPT !.mood_level = mood_level, !.tags = TagsColumn(tags)]

\* Variant of UpdateRow that appends the new tags to the stored ones.
UpdateRowMergeTags(existing_mood, mood_level, tags, notes) ==
    [existing_mood EXCEPT !.mood_level = mood_level,
                          !.tags = IF Truthy(existing_mood.tags) /\ tags /= <<>>
                                   THEN existing_mood.tags \o <<",">> \o CsvJoin(tags)
                                   ELSE TagsColumn(tags),
                          !.notes = notes]

\* analyze_voice lines 292-294: the three assignments to the row found.
UpdateRow(existing_mood, mood_level, tags, notes) ==
    [existing_mood EXCEPT !.mood_level = mood_level, !.tags = TagsColumn(tags),
                          !.notes = notes]

\* analyze_voice lines 310-316: Mood(user_id, date, mood_level, tags, notes)
NewRow(nid, user_id, entry_date, mood_level, tags, notes) ==
    [id |-> nid, user_id |-> user_id, date |-> entry_date, mood_level |-> mood_level,
     emoji |-> NoneVal, emotion |-> NoneVal, tags |-> TagsColumn(tags),
     notes |-> notes]

\* Variant of ReplaceRow that writes the changed row beside the old one.
ReplaceRowKeepOld(st, old, row) == st \cup {row}

\* db.commit() of a loaded row that was assigned to: an UPDATE of that row.
ReplaceRow(st, old, row) == (st \ {old}) \cup {row}

\* Step 3 of analyze_voice once the date is resolved: look the row up, update it
\* in place or insert a new one.  fault names the database call that raises.
Upsert(st, nid, user_id, entry_date, mood_level, tags, notes, fault) ==
    LET existing == FindMood(st, user_id, entry_date)
        same(persist) ==
            [store |-> st, next_id |-> nid, mood_entry |-> <<>>, persist |-> persist]
        done(st2, nid2, row, persist) ==
            [store |-> st2, next_id |-> nid2, mood_entry |-> <<MoodEntry(row)>>,
             persist |-> persist]
    IN  IF fault = "query" THEN same("query_raised")
        ELSE IF existing /= <<>>
        THEN LET row == UpdateRow(existing[1], mood_level, tags, notes)
             IN  IF fault = "commit" THEN same("commit_raised")
                 ELSE done(ReplaceRow(st, existing[1], row), nid, row, "updated")
        ELSE LET row == NewRow(nid, user_id, entry_date, mood_level, tags, notes)
                 ins == DbInsert(st, row)
             IN  IF fault = "commit" \/ ~ins.ok THEN same("commit_raised")
                 ELSE done(ins.store, nid + 1, row, "created")

Committed(persist) == persist \in {"created", "updated"}

\* A row that predates the process (the database outlives it).
LegacyRow ==
    [id |-> 1, user_id |-> "u1", date |-> "2024-05-01", mood_level |-> 2,
     emoji |-> <<"E">>, emotion |-> <<"c", "a", "l", "m">>, tags |-> <<"x">>,
     notes |-> NoneVal]

(***************************************************************************)
(* Upload validation (app/routes/voice.py).                                *)
(***************************************************************************)
ALLOWED_EXTENSIONS ==
    { <<".", "m", "p", "3">>, <<".", "w", "a", "v">>, <<".", "m", "4", "a">>,
      <<".", "o", "g", "g">>, <<".", "f", "l", "a", "c">>, <<".", "w", "e", "b", "m">>,
      <<".", "m", "p", "4">> }

\* os.path.splitext(filename)[1] for a name without directories
SplitExt(filename) ==
    LET dots == {i \in 1..Len(filename) : filename[i] = "."}
    IN  IF dots = {} THEN <<>>
        ELSE LET i == CHOOSE d \in dots : \A e \in dots : e <= d
             IN  IF \A j \in 1..i : filename[j] = "." THEN <<>>
                 ELSE SubSeq(filename, i, Len(filename))

\* The declared filenames that arrive: none, no extension, .txt, .WAV
Filenames ==
    { NoneVal, <<"a">>, <<"a", ".", "t", "x", "t">>, <<"a", ".", "W", "A", "V">> }

\* len(content) against the floor of 1000 bytes and MAX_FILE_SIZE
Sizes == {"tiny", "ok", "big"}

\* analyze_voice lines 209-215: "type_error" when filename is None
analyze_extension(filename) ==
    IF filename = NoneVal THEN "type_error"
    ELSE IF Lower(SplitExt(filename)) \in ALLOWED_EXTENSIONS THEN "ok"
    ELSE "unsupported"

\* transcribe_voice lines 62-74: a missing name or extension defaults to .m4a
transcribe_extension(filename) ==
    LET name == IF Truthy(filename) THEN filename
                ELSE <<"a", "u", "d", "i", "o", ".", "m", "4", "a">>
        ext == Lower(SplitExt(name))
        file_extension == IF ext = <<>> THEN <<".", "m", "4", "a">> ELSE ext
    IN  IF file_extension \in ALLOWED_EXTENSIONS THEN "ok" ELSE "unsupported"

\* transcribe_voice lines 85-102 / analyze_voice lines 224-228
transcribe_size(size) ==
    IF size = "tiny" THEN "file_too_small"
    ELSE IF size = "big" THEN "file_too_large" ELSE "ok"
analyze_size(size) == IF size = "big" THEN "file_too_large" ELSE "ok"

\* The moment a mood_date is parsed: date.fromisoformat accepts the ISO dates.
MoodDates == {"None", "2024-05-01", "2024-13-45"}
IsIsoDate(mood_date) == mood_date \in Dates

(***************************************************************************)
(* State.                                                                  *)
(***************************************************************************)
VARIABLES
    use_openai_env,     \* speech_to_text.py line 15: USE_OPENAI_WHISPER is "true"
    OPENAI_API_KEY,     \* speech_to_text.py line 17: the credential is set
    USE_OPENAI_WHISPER, \* speech_to_text.py module flag, after lines 15-40
    cached_model,       \* _cached_model: 0 for None, else the load that made it
    loads,              \* calls of whisper.load_model so far (the load counter)
    store,              \* rows of the moods table
    next_id,            \* next autoincrement id of the moods table
    slot,               \* the in-flight /analyze and /transcribe requests
    arrived,            \* requests received so far; a request's rid is its rank
    temp_files,         \* rids whose temporary audio file exists on disk
    out,                \* the response the last step sent, NoResponse if none
    call,               \* the normalizer call under way: function and argument
    result              \* what that call returned, <<>> before it returns

vars ==
    <<use_openai_env, OPENAI_API_KEY, USE_OPENAI_WHISPER, cached_model, loads,
      store, next_id, slot, arrived, temp_files, out, call, result>>

IdleSlot ==
    [pc |-> "idle", kind |-> "none", rid |-> 0, filename |-> NoneVal,
     size |-> "none", temp_file_path |-> FALSE, text |-> <<>>, load_id |-> 0,
     n_transcribe |-> 0, n_classify |-> 0, conc |-> FALSE, backends |-> {}]

NoResponse ==
    [rid |-> 0, kind |-> "none", user |-> "none", filename |-> NoneVal,
     size |-> "none", save_to_mood |-> FALSE, mood_date |-> "None",
     entry_date |-> "none", status |-> 0, detail |-> "none",
     transcript |-> "none", classify |-> "none", persist |-> "none",
     classifier_output |-> <<>>, existing |-> <<>>, commit |-> <<>>,
     transcribed_text |-> NoneVal,
     emotion |-> NoneVal, emotion_level |-> <<>>, emotions |-> <<>>,
     mood_level |-> <<>>, confidence |-> <<>>, tags |-> <<>>,
     mood_entry |-> <<>>, message |-> "none", n_transcribe |-> 0,
     n_classify |-> 0, conc |-> FALSE, backends |-> {}]

\* No normalizer call is under way.
NoCall == [fn |-> "none", arg |-> <<>>]

InFlight(s) == slot[s].pc /= "idle"

\* The part of a response that repeats what the request already went through.
Base(sl) ==
    [NoResponse EXCEPT !.rid = sl.rid, !.kind = sl.kind, !.filename = sl.filename,
                       !.size = sl.size, !.n_transcribe = sl.n_transcribe,
                       !.n_classify = sl.n_classify, !.conc = sl.conc,
                       !.backends = sl.backends]

Failed(sl, status, detail, transcript) ==
    [Base(sl) EXCEPT !.status = status, !.detail = detail, !.transcript = transcript]

\* The finally block of both handlers: unlink the file when its path was set.
Cleanup(files, sl) == IF sl.temp_file_path THEN files \ {sl.rid} ELSE files

\* VoiceAnalysisResponse: confidence is declared ge=0.0, le=1.0
ValidAnalysisResponse(confidence) == confidence >= 0 /\ confidence <= 100

ClassifierRaised == [raised |-> TRUE, raw |-> RawOther]
ClassifierResults ==
    {ClassifierRaised} \cup {[raised |-> FALSE, raw |-> r] : r \in ClassifierOutputs}

\* Variant of BadDate that lets every date string through.
BadDateNever(save_to_mood, mood_date) == FALSE

\* analyze_voice lines 270-288: the date the entry is keyed by.
BadDate(save_to_mood, mood_date) ==
    save_to_mood /\ mood_date /= "None" /\ ~IsIsoDate(mood_date)
EntryDate(mood_date) == IF mood_date /= "None" THEN mood_date ELSE Today

\* analyze_voice lines 258-268: the clamped levels.
ClampEmotionLevel(emotion_result) == Max2(1, Min2(10, emotion_result.emotion_level))
ClampMoodLevel(emotion_result) == Max2(1, Min2(5, emotion_result.mood_level))

\* analyze_voice step 3 (lines 270-335): what it does to the table.
analyze_persist(sl, st, nid, emotion_result, i) ==
    IF i.save_to_mood /\ ~BadDate(i.save_to_mood, i.mood_date)
    THEN Upsert(st, nid, i.user, EntryDate(i.mood_date),
                ClampMoodLevel(emotion_result), emotion_result.tags, sl.text, i.fault)
    ELSE [store |-> st, next_id |-> nid, mood_entry |-> <<>>, persist |-> "none"]

\* analyze_voice when detect_emotions_from_text raised (lines 252-256).
analyze_emotion_failed(sl) ==
    [Failed(sl, 500, "emotion_failed", "text") EXCEPT !.classify = "raised"]

\* analyze_voice from the classifier's answer to the response (lines 258-348).
\* existing is the row the lookup found, up what step 3 did.
analyze_response(sl, raw, emotion_result, i, existing, up) ==
    LET bad_date == BadDate(i.save_to_mood, i.mood_date)
        saving == i.save_to_mood /\ ~bad_date
        entry_date == EntryDate(i.mood_date)
        commit == IF Committed(up.persist)
                  THEN <<[user_id |-> i.user, date |-> entry_date,
                          mood_level |-> ClampMoodLevel(emotion_result),
                          tags |-> TagsColumn(emotion_result.tags),
                          notes |-> sl.text]>>
                  ELSE <<>>
        seen == [Failed(sl, 200, "none", "text") EXCEPT
                    !.user = i.user, !.save_to_mood = i.save_to_mood,
                    !.mood_date = i.mood_date, !.classify = "ok",
                    !.classifier_output = <<raw>>, !.persist = up.persist,
                    !.existing = IF saving /\ i.fault /= "query" THEN existing
                                 ELSE <<>>,
                    !.commit = commit,
                    !.entry_date = IF saving THEN entry_date ELSE "none"]
    IN  IF bad_date
        THEN [seen EXCEPT !.status = 400, !.detail = "invalid_date",
                          !.persist = "bad_date"]
        ELSE IF ~ValidAnalysisResponse(emotion_result.confidence)
        THEN [seen EXCEPT !.status = 500, !.detail = "server_error"]
        ELSE [seen EXCEPT
                 !.transcribed_text = sl.text,
                 !.emotion = emotion_result.emotion,
                 !.emotion_level = <<ClampEmotionLevel(emotion_result)>>,
                 !.emotions = emotion_result.emotions,
                 !.mood_level = <<ClampMoodLevel(emotion_result)>>,
                 !.confidence = <<emotion_result.confidence>>,
                 !.tags = emotion_result.tags,
                 !.mood_entry = up.mood_entry,
                 !.message = IF i.save_to_mood /\ up.mood_entry /= <<>>
                             THEN "completed_and_saved" ELSE "completed"]

\* Variant of transcribe_finish that fails the request when the classifier
\* raised.
transcribe_finish_abort(sl, raised, raw, emotion_result) ==
    IF raised
    THEN [Failed(sl, 500, "emotion_failed", "text") EXCEPT !.classify = "raised"]
    ELSE [Failed(sl, 200, "none", "text") EXCEPT
             !.transcribed_text = sl.text, !.classify = "ok",
             !.classifier_output = <<raw>>, !.emotion = emotion_result.emotion,
             !.emotion_level = <<ClampEmotionLevel(emotion_result)>>,
             !.message = "transcribed_and_analyzed"]

\* transcribe_voice from the return of detect_emotions_from_text to the
\* response (lines 132-166).
transcribe_finish(sl, raised, raw, emotion_result) ==
    LET base == [Failed(sl, 200, "none", "text") EXCEPT !.transcribed_text = sl.text]
    IN  IF raised
        THEN [base EXCEPT !.classify = "raised", !.message = "transcribed"]
        ELSE [base EXCEPT
                 !.classify = "ok", !.classifier_output = <<raw>>,
                 !.emotion = emotion_result.emotion,
                 !.emotion_level = <<ClampEmotionLevel(emotion_result)>>,
                 !.message = IF Truthy(emotion_result.emotion)
                             THEN "transcribed_and_analyzed" ELSE "transcribed"]

\* What arrives with POST /mood/add after MoodCreate validated it.
AddMoodInputs ==
    { [moodLevel |-> 5, tags |-> << <<"x">>, <<"y">> >>, notes |-> <<"c">>] }

\* add_mood (app/routes/mood.py lines 32-73): the response and the table.
add_mood(st, nid, rid, user, d, mood_data, fault, conc) ==
    LET base == [NoResponse EXCEPT !.rid = rid, !.kind = "add_mood", !.user = user,
                                   !.entry_date = d, !.conc = conc]
        row == [id |-> nid, user_id |-> user, date |-> d,
                mood_level |-> mood_data.moodLevel, emoji |-> NoneVal,
                emotion |-> NoneVal, tags |-> TagsColumn(mood_data.tags),
                notes |-> mood_data.notes]
        ins == DbInsert(st, row)
    IN  IF fault /= "none" \/ (FindMood(st, user, d) = <<>> /\ ~ins.ok)
        THEN [resp |-> [base EXCEPT !.status = 500, !.detail = "server_error"],
              store |-> st, next_id |-> nid]
        ELSE IF FindMood(st, user, d) /= <<>>
        THEN [resp |-> [base EXCEPT !.status = 400, !.detail = "exists"],
              store |-> st, next_id |-> nid]
        ELSE [resp |-> [base EXCEPT !.status = 201, !.persist = "created",
                                    !.mood_level = <<row.mood_level>>,
                                    !.mood_entry =
                                        <<[MoodEntry(row) EXCEPT
                                              !.tags = NonEmptyOnly(TagsList(row.tags))]>>],
              store |-> ins.store, next_id |-> nid + 1]

(***************************************************************************)
(* Actions: one per run of a handler between two awaits.                   *)
(***************************************************************************)
Init ==
    /\ use_openai_env \in BOOLEAN
    /\ OPENAI_API_KEY \in BOOLEAN
    /\ USE_OPENAI_WHISPER = ResolveUseOpenai(use_openai_env, OPENAI_API_KEY)
    /\ call = NoCall
    /\ result = <<>>
    /\ cached_model = 0
    /\ loads = 0
    /\ store = {LegacyRow}
    /\ next_id = 2
    /\ slot = [s \in Slots |-> IdleSlot]
    /\ arrived = 0
    /\ temp_files = {}
    /\ out = NoResponse

\* The request in slot s returns resp (or raises it): finally runs.
Finish(s, sl, resp, files) ==
    /\ slot' = [slot EXCEPT ![s] = IdleSlot]
    /\ out' = resp
    /\ temp_files' = Cleanup(files, sl)

\* Variant of TranscriptStep that swallows a raising backend and goes on to the
\* classifier with an empty transcript.
TranscriptStepSwallow(s, sl, files, raised, text) ==
    IF ~raised /\ Strip(text) = <<>>
    THEN Finish(s, sl, Failed(sl, 400, "empty_transcription", "empty"), files)
    ELSE /\ slot' = [slot EXCEPT ![s] = [sl EXCEPT !.pc = "classify",
                                                  !.text = IF raised THEN <<>> ELSE text,
                                                  !.size = "none",
                                                  !.n_classify = sl.n_classify + 1]]
         /\ temp_files' = files
         /\ out' = NoResponse

\* transcribe_audio returned or raised (voice.py lines 111-130 and 236-247);
\* with a transcript the handler goes on to call the classifier.
TranscriptStep(s, sl, files, raised, text) ==
    IF raised
    THEN Finish(s, sl, Failed(sl, 500, "transcription_failed", "raised"), files)
    ELSE IF Strip(text) = <<>>
    THEN IF sl.kind = "analyze"
         THEN Finish(s, sl, Failed(sl, 500, "transcription_failed", "empty"), files)
         ELSE Finish(s, sl, Failed(sl, 400, "empty_transcription", "empty"), files)
    ELSE /\ slot' = [slot EXCEPT ![s] = [sl EXCEPT !.pc = "classify", !.text = text,
                                                  !.size = "none",
                                                  !.n_classify = sl.n_classify + 1]]
         /\ temp_files' = files
         /\ out' = NoResponse

\* A request arrives and its handler runs to `await audio_file.read()`.
Arrive(s) ==
    /\ out = NoResponse
    /\ arrived < MaxReq
    /\ ~InFlight(s)
    /\ \A t \in Slots : t < s => InFlight(t)
    /\ \E kind \in {"analyze", "transcribe"}, filename \in Filenames :
          LET sl == [IdleSlot EXCEPT !.pc = "read", !.kind = kind,
                                     !.rid = arrived + 1, !.filename = filename,
                                     !.conc = \E t \in Slots : InFlight(t)]
              verdict == IF kind = "analyze" THEN analyze_extension(filename)
                         ELSE transcribe_extension(filename)
          IN  IF verdict = "ok"
              THEN /\ slot' = [t \in Slots |->
                                 IF t = s THEN sl
                                 ELSE IF InFlight(t) THEN [slot[t] EXCEPT !.conc = TRUE]
                                 ELSE slot[t]]
                   /\ out' = NoResponse
              ELSE /\ slot' = slot
                   /\ out' = IF verdict = "type_error"
                             THEN Failed(sl, 500, "server_error", "none")
                             ELSE Failed(sl, 400, "unsupported_format", "none")
    /\ arrived' = arrived + 1
    /\ UNCHANGED <<use_openai_env, OPENAI_API_KEY, USE_OPENAI_WHISPER, call, result,
                   cached_model, loads, store,
                   next_id, temp_files>>

\* The upload was read: size checks, the temporary file, and transcribe_audio
\* up to its first await (the remote call has none and completes here).
AfterRead(s) ==
    /\ out = NoResponse
    /\ slot[s].pc = "read"
    /\ \E size \in Sizes, write_ok \in BOOLEAN :
          LET sl0 == [slot[s] EXCEPT !.size = size]
              \* the declared name is not read again
              verdict == IF sl0.kind = "analyze" THEN analyze_size(size)
                         ELSE transcribe_size(size)
              remote == UsesOpenai(USE_OPENAI_WHISPER, OPENAI_API_KEY)
              sl1 == [sl0 EXCEPT !.temp_file_path = TRUE, !.n_transcribe = 1,
                                 !.filename = NoneVal,
                                 !.backends = IF remote THEN {"openai"}
                                              ELSE {"local"}]
              files == temp_files \cup {sl0.rid}
          IN  IF verdict /= "ok"
              THEN /\ write_ok
                   /\ Finish(s, sl0, Failed(sl0, 400, verdict, "none"), temp_files)
                   /\ UNCHANGED <<cached_model, loads>>
              ELSE IF ~write_ok
              THEN \* temp_file.write raised: the file exists, its path was not kept
                   /\ Finish(s, sl0, Failed(sl0, 500, "write_failed", "none"), files)
                   /\ UNCHANGED <<cached_model, loads>>
              ELSE IF remote
              THEN /\ \E res \in BackendResults :
                         TranscriptStep(s, sl1, files, res.raised, openai_text(res))
                   /\ UNCHANGED <<cached_model, loads>>
              ELSE IF cached_model = 0
              THEN /\ slot' = [slot EXCEPT ![s] = [sl1 EXCEPT !.pc = "load",
                                                              !.load_id = loads + 1]]
                   /\ loads' = loads + 1
                   /\ temp_files' = files
                   /\ out' = NoResponse
                   /\ UNCHANGED cached_model
              ELSE /\ slot' = [slot EXCEPT ![s] = [sl1 EXCEPT !.pc = "transcribe"]]
                   /\ temp_files' = files
                   /\ out' = NoResponse
                   /\ UNCHANGED <<cached_model, loads>>
    /\ UNCHANGED <<use_openai_env, OPENAI_API_KEY, USE_OPENAI_WHISPER, call, result,
                   store, next_id, arrived>>

\* Variant of LoadDone that leaves the handle of a failed load in the cache.
LoadDonePublishFailed(s) ==
    /\ out = NoResponse
    /\ slot[s].pc = "load"
    /\ \E ok \in BOOLEAN :
          /\ cached_model' = slot[s].load_id
          /\ IF ok
             THEN /\ slot' = [slot EXCEPT ![s].pc = "transcribe"]
                  /\ out' = NoResponse
                  /\ UNCHANGED temp_files
             ELSE Finish(s, slot[s],
                         Failed(slot[s], 500, "transcription_failed", "raised"),
                         temp_files)
    /\ UNCHANGED <<use_openai_env, OPENAI_API_KEY, USE_OPENAI_WHISPER, call, result,
                   loads, store, next_id, arrived>>

\* whisper.load_model returned in the executor (speech_to_text.py line 124).
LoadDone(s) ==
    /\ out = NoResponse
    /\ slot[s].pc = "load"
    /\ \E ok \in BOOLEAN :
          IF ok
          THEN /\ cached_model' = slot[s].load_id
               /\ slot' = [slot EXCEPT ![s].pc = "transcribe"]
               /\ out' = NoResponse
               /\ UNCHANGED temp_files
          ELSE /\ Finish(s, slot[s],
                         Failed(slot[s], 500, "transcription_failed", "raised"),
                         temp_files)
               /\ UNCHANGED cached_model
    /\ UNCHANGED <<use_openai_env, OPENAI_API_KEY, USE_OPENAI_WHISPER, call, result,
                   loads, store, next_id, arrived>>

\* _transcribe returned in the executor (speech_to_text.py line 173).
TranscribeDone(s) ==
    /\ out = NoResponse
    /\ slot[s].pc = "transcribe"
    /\ \E res \in BackendResults :
          TranscriptStep(s, slot[s], temp_files, res.raised, transcribe_text(res))
    /\ UNCHANGED <<use_openai_env, OPENAI_API_KEY, USE_OPENAI_WHISPER, call, result,
                   cached_model, loads, store,
                   next_id, arrived>>

\* The form fields and the database fault one /analyze request can meet: a
\* fault is drawn only where step 3 reaches the database (and then for one
\* user), and the user varies only where step 3 reads it.
AnalyzeInputs ==
    {i \in [user : Users, save_to_mood : {TRUE},
            mood_date : {md \in MoodDates : md = "None" \/ IsIsoDate(md)},
            fault : DbFaults] : i.fault = "none" \/ i.user = "u1"}
    \cup {[user |-> "u1", save_to_mood |-> FALSE, mood_date |-> md, fault |-> "none"] :
        md \in {md \in MoodDates : ~IsIsoDate(md)}}
    \cup {[user |-> "u1", save_to_mood |-> TRUE, mood_date |-> md, fault |-> "none"] :
        md \in {md \in MoodDates : md /= "None" /\ ~IsIsoDate(md)}}

\* detect_emotions_from_text returned or raised: the rest of the handler.
ClassifyDone(s) ==
    /\ out = NoResponse
    /\ slot[s].pc = "classify"
    /\ \E clf \in ClassifierResults :
       \E emotion_result \in {format_emotion_result(clf.raw)} :
          IF slot[s].kind = "transcribe"
          THEN /\ Finish(s, slot[s],
                         transcribe_finish(slot[s], clf.raised, clf.raw, emotion_result),
                         temp_files)
               /\ UNCHANGED <<store, next_id>>
          ELSE IF clf.raised
          THEN /\ Finish(s, slot[s], analyze_emotion_failed(slot[s]), temp_files)
               /\ UNCHANGED <<store, next_id>>
          ELSE \E i \in AnalyzeInputs :
               \E existing \in {FindMood(store, i.user, EntryDate(i.mood_date))} :
               \E up \in {analyze_persist(slot[s], store, next_id, emotion_result, i)} :
               \E resp \in {analyze_response(slot[s], clf.raw, emotion_result,
                                             i, existing, up)} :
                  /\ Finish(s, slot[s], resp, temp_files)
                  /\ store' = up.store
                  /\ next_id' = up.next_id
    /\ UNCHANGED <<use_openai_env, OPENAI_API_KEY, USE_OPENAI_WHISPER, call, result,
                   cached_model, loads, arrived>>

\* POST /mood/add: the handler has no await and runs in one piece.
AddMood ==
    /\ out = NoResponse
    /\ arrived < MaxReq
    /\ \E user \in Users, d \in Dates, mood_data \in AddMoodInputs,
          fault \in {"none", "query"} :
          \E r \in {add_mood(store, next_id, arrived + 1, user, d, mood_data, fault,
                            \E t \in Slots : InFlight(t))} :
              /\ store' = r.store
              /\ next_id' = r.next_id
              /\ out' = r.resp
    /\ arrived' = arrived + 1
    /\ UNCHANGED <<use_openai_env, OPENAI_API_KEY, USE_OPENAI_WHISPER, call, result,
                   cached_model, loads, slot, temp_files>>

\* The response of the last step leaves the process (main.py log_requests
\* returns it); no handler reads it, so it is let go before the next step.
Deliver ==
    /\ out /= NoResponse
    /\ out' = NoResponse
    /\ UNCHANGED <<use_openai_env, OPENAI_API_KEY, USE_OPENAI_WHISPER, call, result,
                   cached_model, loads, store, next_id, slot,
                   arrived, temp_files>>

Next ==
    \/ \E s \in Slots : Arrive(s)
    \/ \E s \in Slots : AfterRead(s)
    \/ \E s \in Slots : LoadDone(s)
    \/ \E s \in Slots : TranscribeDone(s)
    \/ \E s \in Slots : ClassifyDone(s)
    \/ AddMood
    \/ Deliver

Spec == Init /\ [][Next]_vars

(***************************************************************************)
(* Single calls: one call of format_emotion_result, of                     *)
(* _convert_emotion_level_to_mood_level, of _transcribe or of the saving   *)
(* part of analyze_voice, on an input drawn at the start.                  *)
(***************************************************************************)
\* Emotion names as the classifier can spell them: plain, with a comma inside,
\* with a leading blank.
TagLabels == {Joy, <<"a", ",", "b">>, <<" ", "a">>}

\* One run of analyze_voice from the classifier's answer on (lines 258-348)
\* with nothing failing in the database.
SaveInputs ==
    {[raw |-> r, i |-> i] :
        r \in {RawLeveled(l, 8) : l \in TagLabels}
               \cup {RawProbMap(<<Pair(l, 35), Pair(Sad, 15)>>) : l \in TagLabels},
        i \in {i \in AnalyzeInputs : i.fault = "none"}}

NormalizerCalls ==
    {[fn |-> "format_emotion_result", arg |-> r] : r \in RawInputs}
    \cup {[fn |-> "convert_emotion_level_to_mood_level", arg |-> l] : l \in LevelInputs}
    \cup {[fn |-> "transcribe", arg |-> r] : r \in WhisperInputs}
    \cup {[fn |-> "analyze_save", arg |-> a] : a \in SaveInputs}

PureInit ==
    /\ use_openai_env = FALSE
    /\ OPENAI_API_KEY = FALSE
    /\ USE_OPENAI_WHISPER = ResolveUseOpenai(use_openai_env, OPENAI_API_KEY)
    /\ cached_model = 0
    /\ loads = 0
    /\ store = {LegacyRow}
    /\ next_id = 2
    /\ slot = [s \in Slots |-> IdleSlot]
    /\ arrived = 0
    /\ temp_files = {}
    /\ out = NoResponse
    /\ call \in NormalizerCalls
    /\ result = <<>>

Normalize ==
    /\ call.fn = "format_emotion_result"
    /\ result = <<>>
    /\ result' = <<format_emotion_result(call.arg)>>
    /\ UNCHANGED <<use_openai_env, OPENAI_API_KEY, USE_OPENAI_WHISPER, cached_model,
                   loads, store, next_id, slot, arrived, temp_files, out, call>>

MapMood ==
    /\ call.fn = "convert_emotion_level_to_mood_level"
    /\ result = <<>>
    /\ result' = <<convert_emotion_level_to_mood_level(call.arg)>>
    /\ UNCHANGED <<use_openai_env, OPENAI_API_KEY, USE_OPENAI_WHISPER, cached_model,
                   loads, store, next_id, slot, arrived, temp_files, out, call>>

\* _transcribe (speech_to_text.py lines 133-171) on one Whisper result.
ExtractText ==
    /\ call.fn = "transcribe"
    /\ result = <<>>
    /\ result' = <<transcribe_text(call.arg)>>
    /\ UNCHANGED <<use_openai_env, OPENAI_API_KEY, USE_OPENAI_WHISPER, cached_model,
                   loads, store, next_id, slot, arrived, temp_files, out, call>>

\* analyze_voice lines 258-348 for a request whose transcript is "a".
SaveStep ==
    LET sl == [IdleSlot EXCEPT !.pc = "classify", !.kind = "analyze", !.rid = 1,
                               !.temp_file_path = TRUE, !.text = <<"a">>,
                               !.n_transcribe = 1, !.n_classify = 1,
                               !.backends = {"local"}]
        i == call.arg.i
        emotion_result == format_emotion_result(call.arg.raw)
        existing == FindMood(store, i.user, EntryDate(i.mood_date))
        up == analyze_persist(sl, store, next_id, emotion_result, i)
        resp == analyze_response(sl, call.arg.raw, emotion_result, i, existing, up)
    IN  /\ call.fn = "analyze_save"
        /\ result = <<>>
        /\ result' = <<resp>>
        /\ out' = resp
        /\ store' = up.store
        /\ next_id' = up.next_id
        /\ UNCHANGED <<use_openai_env, OPENAI_API_KEY, USE_OPENAI_WHISPER,
                       cached_model, loads, slot, arrived, temp_files, call>>

PureNext == Normalize \/ MapMood \/ ExtractText \/ SaveStep

PureSpec == PureInit /\ [][PureNext]_vars


(***************************************************************************)
(* Properties of the pipeline and of the moods table.                      *)
(***************************************************************************)
KeyRows(st, user_id, d) == {r \in st : r.user_id = user_id /\ r.date = d}

Holds(row, c) ==
    /\ row.mood_level = c.mood_level
    /\ row.tags = c.tags
    /\ row.notes = c.notes

PersistFailed(resp) == resp.persist \in {"query_raised", "commit_raised"}

\* C1: after any sequence of /analyze (save_to_mood) and /mood/add requests, in
\* any order and for any users and dates, the moods table holds at most one
\* record per (user_id, date).
C1_OneRecordPerKey ==
    \A r \in store, q \in store :
        (r.user_id = q.user_id /\ r.date = q.date) => r = q

\* An analysis has just written to a key that already had a record, with
\* another key present in the table.
C1_Witness ==
    /\ out.kind = "analyze"
    /\ out.persist = "updated"
    /\ Cardinality(store) = 2
    /\ Cardinality(KeyRows(store, out.user, out.entry_date)) = 1

\* C2: when /analyze persists for a key that already has a record, the record
\* takes the request's mood_level, tags and transcript (nothing of the old
\* values is merged in), keeps id, user_id, date, emoji and emotion, no second
\* record appears and every record under another key is unchanged.
C2_OverwriteInPlace ==
    [][
        (out'.kind = "analyze" /\ out'.commit /= <<>> /\ out'.existing /= <<>>) =>
            LET old == out'.existing[1]
                c == out'.commit[1]
                new == [id |-> old.id, user_id |-> old.user_id, date |-> old.date,
                        emoji |-> old.emoji, emotion |-> old.emotion,
                        mood_level |-> c.mood_level, tags |-> c.tags, notes |-> c.notes]
            IN  /\ old \in store
                /\ old.user_id = c.user_id /\ old.date = c.date
                /\ store' = (store \ {old}) \cup {new}
                /\ Cardinality(store') = Cardinality(store)
    ]_vars

\* The record that predates the process (emoji and emotion set, other tags, no
\* notes) has just been overwritten while another record exists.
C2_Witness ==
    /\ out.kind = "analyze"
    /\ out.persist = "updated"
    /\ out.existing = <<LegacyRow>>
    /\ out.commit[1].tags /= LegacyRow.tags
    /\ Cardinality(store) = 2

\* C3: an upsert repeated with the same arguments for the same key leaves
\* exactly one record for the key, holding those values, and the table after
\* the second call equals the table after the first.
C3_UpsertIdempotent ==
    [][
        (/\ out'.kind = "analyze" /\ out'.commit /= <<>> /\ out'.existing /= <<>>
         /\ Holds(out'.existing[1], out'.commit[1])) =>
            /\ store' = store
            /\ \E row \in store' :
                  /\ KeyRows(store', out'.commit[1].user_id, out'.commit[1].date) = {row}
                  /\ Holds(row, out'.commit[1])
    ]_vars

\* The second of two analyses that carried the same values for one key has
\* just committed, the first having created the record.
C3_Witness ==
    /\ out.kind = "analyze"
    /\ out.persist = "updated"
    /\ out.existing /= <<>>
    /\ out.existing[1].id /= LegacyRow.id
    /\ Holds(out.existing[1], out.commit[1])

\* C4 (as claimed): when the lookup or the write raises in /analyze after
\* transcription and classification succeeded, the response is still a
\* success carrying the computed fields, with mood_entry absent.
C4_PersistenceFailureStillSucceeds ==
    (out.kind = "analyze" /\ PersistFailed(out)) =>
        /\ out.status = 200
        /\ out.mood_entry = <<>>
        /\ out.transcribed_text /= NoneVal
        /\ out.emotion /= NoneVal
        /\ out.emotion_level /= <<>>
        /\ out.mood_level /= <<>>
        /\ out.confidence /= <<>>

\* C5 (as claimed): when the classifier call fails in /analyze after a
\* transcript was obtained, the response is a success with the transcript and
\* the neutral default (neutral, emotion_level 5, mood_level 3).
C5_ClassifierFailureIsNeutral ==
    (out.kind = "analyze" /\ out.classify = "raised") =>
        /\ out.status = 200
        /\ out.transcribed_text /= NoneVal
        /\ out.emotion = NeutralText
        /\ out.emotion_level = <<5>>
        /\ out.mood_level = <<3>>

\* C6: when the transcription backend raises, the request fails, transcription
\* was called once, the classifier not at all and the table is untouched; the
\* classifier is awaited only with a non-empty transcript, and an analysis
\* writes to the table only after its classifier call returned.
C6_StagesInOrder ==
    [][
        /\ out'.transcript = "raised" =>
              /\ out'.status >= 400
              /\ out'.n_transcribe = 1
              /\ out'.n_classify = 0
              /\ store' = store
              /\ \A s \in Slots : slot'[s].rid /= out'.rid
        /\ \A s \in Slots :
              slot'[s].pc = "classify" =>
                  /\ Strip(slot'[s].text) /= <<>>
                  /\ slot'[s].n_transcribe = 1
                  /\ slot'[s].n_classify = 1
        /\ (store' /= store /\ out'.kind /= "add_mood") =>
              /\ out'.kind = "analyze"
              /\ out'.transcript = "text"
              /\ out'.classify = "ok"
              /\ out'.n_classify = 1
    ]_vars

\* A backend that raised has just failed an /analyze request while a record
\* exists in the table.
C6_Witness ==
    /\ out.kind = "analyze"
    /\ out.transcript = "raised"
    /\ out.status = 500
    /\ store /= {}

\* C7 (as claimed): in both endpoints an empty or whitespace-only transcript
\* is rejected as a client error with the empty-transcription message, unlike
\* a backend failure; no classifier call, no write, no second transcription.
C7_EmptyTranscriptIsClientError ==
    out.transcript = "empty" =>
        /\ out.status = 400
        /\ out.detail = "empty_transcription"
        /\ out.n_classify = 0
        /\ out.n_transcribe = 1
        /\ out.commit = <<>>

\* C8 (as claimed): under concurrent first use of the local engine no
\* interleaving has the model load started twice.
C8_SingleLoad ==
    Cardinality({s \in Slots : slot[s].pc = "load"}) <= 1

\* C9: two concurrent analyses of one key leave exactly one record for it,
\* holding the values of the write that reached the table last: every commit of
\* an analysis leaves the key with one record that holds that commit's values.
C9_LastWriteWins ==
    (out.kind = "analyze" /\ out.commit /= <<>>) =>
        \E row \in store :
            /\ KeyRows(store, out.commit[1].user_id, out.commit[1].date) = {row}
            /\ Holds(row, out.commit[1])

\* The request that arrived first has just overwritten, with another mood
\* level, the record the overlapping later analysis wrote.
C9_Witness ==
    /\ out.kind = "analyze"
    /\ out.rid = 1
    /\ out.conc
    /\ out.persist = "updated"
    /\ out.existing /= <<>>
    /\ out.existing[1].notes = out.commit[1].notes
    /\ out.existing[1].mood_level /= out.commit[1].mood_level
    /\ arrived = 2

\* C10 (as claimed): the temporary file of a request is gone when the request
\* finishes, and none remains once every request has finished.
C10_TempFilesRemoved ==
    /\ temp_files \subseteq {slot[s].rid : s \in {t \in Slots : InFlight(t)}}
    /\ (\A s \in Slots : ~InFlight(s)) => temp_files = {}

\* C11: both handlers reject an upload below the size floor before a temporary
\* file is written and before any transcription attempt: a request whose
\* upload is tiny never has a file on disk, never counts a transcription and
\* is answered 400.
C11_SizeFloorBothHandlers ==
    /\ \A s \in Slots :
          slot[s].size = "tiny" =>
             /\ slot[s].n_transcribe = 0
             /\ ~slot[s].temp_file_path
             /\ slot[s].rid \notin temp_files
    /\ out.size = "tiny" => out.n_transcribe = 0 /\ out.status = 400

\* C12: an upload reaches the transcription stage only if the extension of
\* its declared name is in the allow-list, and an upload turned away for its
\* name is turned away as a client error.
C12_ExtensionGate ==
    /\ [](out.rid /= 0 /\ out.kind \in {"analyze", "transcribe"}
            /\ out.size = "none" /\ out.n_transcribe = 0
          => out.status = 400)
    /\ [][\A s \in Slots :
            (/\ slot[s].pc = "read"
             /\ \/ slot'[s].n_transcribe = 1
                \/ out'.rid = slot[s].rid /\ out'.n_transcribe = 1)
            => /\ slot[s].filename /= NoneVal
               /\ Lower(SplitExt(slot[s].filename)) \in ALLOWED_EXTENSIONS]_vars

\* C13: each transcribe call invokes exactly one backend, the one the
\* configuration read at start selects (remote iff enabled and the credential
\* is present, local otherwise); the resolved flag stays what the start made
\* it; a failing remote call fails the request without the local backend.
C13_OneBackendFixedByConfig ==
    LET remote == use_openai_env /\ OPENAI_API_KEY
        expected == IF remote THEN {"openai"} ELSE {"local"}
    IN  /\ USE_OPENAI_WHISPER = ResolveUseOpenai(use_openai_env, OPENAI_API_KEY)
        /\ \A s \in Slots :
              /\ slot[s].n_transcribe = 1 => slot[s].backends = expected
              /\ slot[s].n_transcribe = 0 => slot[s].backends = {}
              /\ slot[s].pc \in {"load", "transcribe"} => ~remote
        /\ out.n_transcribe = 1 => out.backends = expected
        /\ out.n_transcribe = 0 => out.backends = {}
        /\ remote => loads = 0 /\ cached_model = 0
        /\ out.transcript = "raised" => out.status = 500 /\ out.backends = expected

\* A remote call failed: the request is answered 500 and only the remote
\* backend was invoked.
C13_Witness ==
    /\ use_openai_env /\ OPENAI_API_KEY
    /\ out.transcript = "raised"
    /\ out.status = 500
    /\ out.backends = {"openai"}
    /\ loads = 0

\* The normalizer was called and has returned.
Normalized == call.fn = "format_emotion_result" /\ result /= <<>>

\* C14: for every raw classifier output of any shape, the normalizer returns
\* emotion_level in 1..10 and confidence in 0.0..1.0.
C14_NormalizerRanges ==
    Normalized =>
       /\ result[1].emotion_level \in 1..10
       /\ result[1].confidence >= 0
       /\ result[1].confidence <= 100

\* C16: on levels 1..10 the mood mapper returns 1 for 1-2, 2 for 3-4, 3 for
\* 5-6, 4 for 7-8 and 5 for 9-10, and never maps a lower level above a
\* higher one.
C16_MoodMapperBuckets ==
    (/\ call.fn = "convert_emotion_level_to_mood_level"
     /\ result /= <<>>
     /\ call.arg \in 1..10)
    => /\ result[1] = CASE call.arg \in {1, 2} -> 1
                        [] call.arg \in {3, 4} -> 2
                        [] call.arg \in {5, 6} -> 3
                        [] call.arg \in {7, 8} -> 4
                        [] call.arg \in {9, 10} -> 5
       /\ \A a \in 1..10 :
             a < call.arg => convert_emotion_level_to_mood_level(a) <= result[1]

\* The mapper returned for a level at the upper edge of a bucket.
C16_Witness ==
    /\ call.fn = "convert_emotion_level_to_mood_level"
    /\ call.arg = 8
    /\ result = <<4>>

\* Empty or unrecognized classifier output: an empty map, an empty list, a
\* list none of whose entries names an emotion, or a value of no known shape.
Unrecognized(raw) ==
    \/ raw.shape = "other"
    \/ raw.shape \in {"probmap", "list"} /\ raw.probs = <<>>
    \/ raw.shape = "list" /\ \A i \in 1..Len(raw.probs) : raw.probs[i].label = <<>>

\* C17: empty or unrecognized classifier output normalizes to "neutral",
\* emotion_level 5, confidence 0.0 and mood_level 3.
C17_UnrecognizedIsNeutralZero ==
    Normalized /\ Unrecognized(call.arg) =>
       /\ result[1].emotion = NeutralText
       /\ result[1].emotion_level = 5
       /\ result[1].confidence = 0
       /\ result[1].mood_level = 3

\* C18: {emotion, level} with a non-empty emotion and any integer level gives
\* that emotion, the level clamped into 1..10, confidence level / 10, tags
\* {emotion} and the mood level of the clamped level.
C18_LeveledLabel ==
    Normalized /\ call.arg.shape = "leveled" /\ call.arg.emotion /= <<>> =>
       LET clamped == IF call.arg.level < 1 THEN 1
                      ELSE IF call.arg.level > 10 THEN 10 ELSE call.arg.level
       IN  /\ result[1].emotion = call.arg.emotion
           /\ result[1].emotion_level = clamped
           /\ result[1].confidence = clamped * 10
           /\ result[1].tags = <<call.arg.emotion>>
           /\ result[1].mood_level = (clamped + 1) \div 2

\* The probability an entry list gives a label (labels are distinct).
ProbOf(entries, label) ==
    entries[CHOOSE i \in 1..Len(entries) : entries[i].label = label].p

\* labels lists distinct labels of entries in descending probability order.
DescendingLabels(entries, labels) ==
    /\ \A a \in 1..Len(labels) : \E i \in 1..Len(entries) : entries[i].label = labels[a]
    /\ \A a, b \in 1..Len(labels) :
          a < b => /\ labels[a] /= labels[b]
                   /\ ProbOf(entries, labels[a]) >= ProbOf(entries, labels[b])

\* C19: for a non-empty probability map or scored list the primary emotion is
\* a label of highest probability, emotion_level is round(10 * top) clamped
\* to 1..10, confidence is the top probability, the alternates are the labels
\* at or above 0.1 in descending order or, when there is none, the top 3
\* labels, and tags equal the alternates.
C19_ProbabilityShapes ==
    (/\ Normalized
     /\ call.arg.shape \in {"probmap", "list"}
     /\ call.arg.probs /= <<>>
     /\ \A i \in 1..Len(call.arg.probs) : call.arg.probs[i].label /= <<>>
     /\ \A i, j \in 1..Len(call.arg.probs) :
           i /= j => call.arg.probs[i].label /= call.arg.probs[j].label)
    => LET entries == call.arg.probs
           r == result[1]
           reaching == {i \in 1..Len(entries) : entries[i].p >= 10}
       IN  /\ \E i \in 1..Len(entries) :
                 /\ r.emotion = entries[i].label
                 /\ \A j \in 1..Len(entries) : entries[j].p <= entries[i].p
                 /\ r.confidence = entries[i].p
                 /\ r.emotion_level = Max2(1, Min2(10, RoundTimes10(entries[i].p)))
           /\ DescendingLabels(entries, r.emotions)
           /\ IF reaching /= {}
              THEN {r.emotions[a] : a \in 1..Len(r.emotions)}
                      = {entries[i].label : i \in reaching}
              ELSE /\ Len(r.emotions) = Min2(3, Len(entries))
                   /\ \A i \in 1..Len(entries) :
                         (\A a \in 1..Len(r.emotions) : r.emotions[a] /= entries[i].label)
                         => \A a \in 1..Len(r.emotions) :
                               entries[i].p <= ProbOf(entries, r.emotions[a])
           /\ r.tags = r.emotions

\* C15: in every analyze response, and in every record analyze wrote, the
\* mood_level is the mood mapper's bucket of the emotion_level reported in the
\* same response.
C15_MoodLevelDerived ==
    out.kind = "analyze" /\ out.status = 200 =>
       /\ out.mood_level = <<convert_emotion_level_to_mood_level(out.emotion_level[1])>>
       /\ out.commit /= <<>> =>
             out.commit[1].mood_level
                = convert_emotion_level_to_mood_level(out.emotion_level[1])

\* C20: in analyze with save_to_mood, a mood_date that is not a valid
\* YYYY-MM-DD date is answered with a client error and leaves the moods table
\* as it was; with no mood_date the record is keyed by the current date.
C20_MoodDateStrictOrToday ==
    /\ [](out.kind = "analyze" /\ out.save_to_mood =>
            /\ out.mood_date \notin Dates \cup {"None"} =>
                  /\ out.status = 400
                  /\ out.commit = <<>>
                  /\ out.mood_entry = <<>>
            /\ out.mood_date = "None" /\ out.commit /= <<>> =>
                  /\ out.commit[1].date = Today
                  /\ \E r \in store : r.user_id = out.user /\ r.date = Today)
    /\ [][(/\ out' /= out
           /\ out'.kind = "analyze"
           /\ out'.save_to_mood
           /\ out'.mood_date \notin Dates \cup {"None"})
          => store' = store /\ next_id' = next_id]_vars

\* An analyze request that asked to save under a malformed date was turned
\* away after transcription and classification.
C20_Witness ==
    /\ out.kind = "analyze"
    /\ out.save_to_mood
    /\ out.mood_date = "2024-13-45"
    /\ out.status = 400
    /\ out.n_classify = 1

\* The fields of VoiceAnalysisResponse the client receives.
VisibleAnalysis(resp) ==
    [transcribed_text |-> resp.transcribed_text, emotion |-> resp.emotion,
     emotion_level |-> resp.emotion_level, emotions |-> resp.emotions,
     mood_level |-> resp.mood_level, confidence |-> resp.confidence,
     tags |-> resp.tags, mood_entry |-> resp.mood_entry, message |-> resp.message]

\* C21: when the persistence step of analyze fails, the success response
\* carries a note about the failed save: what the client receives differs from
\* the response to the same analysis with saving not requested.
C21_FailedSaveIsNoted ==
    (out.kind = "analyze" /\ out.status = 200 /\ PersistFailed(out)) =>
        VisibleAnalysis(out)
           /= [VisibleAnalysis(out) EXCEPT !.mood_entry = <<>>, !.message = "completed"]

\* C22: no load of the local model starts before a request asks for a local
\* transcription; once a loaded model is in the process-wide cache no further
\* load starts, and every request that begins to transcribe afterwards finds
\* that same instance in the cache.
C22_LazyLoadThenReuse ==
    /\ loads = 0 /\ cached_model = 0
    /\ [][/\ loads' /= loads =>
               \E s \in Slots : slot[s].pc = "read" /\ slot'[s].pc = "load"
          /\ cached_model /= 0 =>
               /\ loads' = loads
               /\ \A s \in Slots :
                     slot[s].pc /= "transcribe" /\ slot'[s].pc = "transcribe"
                     => cached_model' = cached_model]_vars

\* C23: every slow stage suspends the handler: a request that starts its
\* transcription is then waiting for the load or for the inference (a state in
\* which other requests can take steps), it never has the transcription behind
\* it in the very step that started it; likewise the classifier is waited for.
C23_SlowStagesSuspend ==
    [][\A s \in Slots :
          /\ (slot[s].pc = "read" /\ slot'[s].pc /= "read") =>
                \/ slot'[s].pc \in {"load", "transcribe"}
                \/ /\ slot'[s].pc = "idle"
                   /\ out'.rid = slot[s].rid
                   /\ out'.n_transcribe = 0
          /\ (slot[s].n_classify = 0 /\ slot'[s].n_classify = 1) =>
                slot'[s].pc = "classify"]_vars

\* The probability a list gives a label that may occur more than once: the one
\* given last.
LastProbOf(entries, label) ==
    entries[CHOOSE i \in 1..Len(entries) :
               /\ entries[i].label = label
               /\ \A j \in (i + 1)..Len(entries) : entries[j].label /= label].p

\* The positions at which a label of highest probability occurs first.
TiedFirstPositions(entries) ==
    {i \in 1..Len(entries) :
        /\ \A j \in 1..(i - 1) : entries[j].label /= entries[i].label
        /\ \A j \in 1..Len(entries) :
              LastProbOf(entries, entries[j].label)
                 <= LastProbOf(entries, entries[i].label)}

\* C24: when two or more labels share the maximum probability, the primary
\* emotion is the one of them met first in the input's order, for a map and
\* for a list, lists that repeat a label included.
C24_TieBreakFirstEncountered ==
    (/\ Normalized
     /\ call.arg.shape \in {"probmap", "list"}
     /\ \A i \in 1..Len(call.arg.probs) : call.arg.probs[i].label /= <<>>
     /\ Cardinality(TiedFirstPositions(call.arg.probs)) >= 2)
    => \E i \in TiedFirstPositions(call.arg.probs) :
          /\ \A j \in TiedFirstPositions(call.arg.probs) : i <= j
          /\ result[1].emotion = call.arg.probs[i].label

\* C25: the local transcription returns the primary transcript when it is
\* non-empty and no prompt artifact; otherwise it returns the trimmed, non-empty
\* segment texts, repeats dropped, joined in order: the empty text when no
\* segment carries text.
C25_SegmentFallback ==
    (call.fn = "transcribe" /\ result /= <<>>) =>
        LET primary == Strip(call.arg.text)
            artifact == \/ primary = <<".">>
                        \/ Contains(Lower(primary), PromptArtifact)
        IN  IF primary /= <<>> /\ ~artifact
            THEN result[1] = primary
            ELSE result[1] = SpaceJoin(SegmentTexts(call.arg.segments, <<>>))

\* C26: in transcribe_only, a classifier failure after a non-empty transcript
\* leaves the request a success that returns the transcript without emotion
\* and emotion_level.
C26_TranscribeSurvivesClassifier ==
    (out.kind = "transcribe" /\ out.classify = "raised") =>
        /\ out.status = 200
        /\ out.transcribed_text /= NoneVal
        /\ Strip(out.transcribed_text) /= <<>>
        /\ out.emotion = NoneVal
        /\ out.emotion_level = <<>>
        /\ out.n_transcribe = 1 /\ out.n_classify = 1

\* A transcribe_only request whose classifier call raised was answered.
C26_Witness ==
    /\ out.kind = "transcribe"
    /\ out.classify = "raised"
    /\ out.status = 200
    /\ out.message = "transcribed"

\* C27: an analyze request that ends in a failed response, an analyze request
\* with save_to_mood false and every transcribe_only request leave the moods
\* table as it was: the table changes only in the step that answers an
\* analyze request with save_to_mood as a success (or in add_mood).
C27_OnlySavedSuccessWrites ==
    [][(store' /= store \/ next_id' /= next_id) =>
          \/ out'.kind = "add_mood"
          \/ /\ out'.kind = "analyze"
             /\ out'.save_to_mood
             /\ out'.status = 200]_vars

\* C28: a mood_entry returned by analyze mirrors the response and the stored
\* record: its moodLevel is the response mood_level, its notes the
\* transcribed_text, its date the resolved date, and its tags are the response
\* tags, element for element.
C28_MoodEntryMirrors ==
    (out.kind = "analyze" /\ out.status = 200 /\ out.mood_entry /= <<>>) =>
        LET entry == out.mood_entry[1]
        IN  /\ <<entry.moodLevel>> = out.mood_level
            /\ entry.notes = out.transcribed_text
            /\ entry.date = out.entry_date
            /\ entry.tags = out.tags
            /\ \E row \in store :
                  /\ row.id = entry.id
                  /\ row.user_id = entry.userId /\ row.user_id = out.user
                  /\ row.date = entry.date
                  /\ row.mood_level = entry.moodLevel
                  /\ row.notes = entry.notes

\* C29: a scored list and a probability map that carry the same
\* label-to-probability pairs in the same order normalize to the same result,
\* entries of probability 0 included.
C29_ListEqualsMap ==
    (/\ Normalized
     /\ call.arg.shape = "list"
     /\ call.arg.probs /= <<>>
     /\ \A i \in 1..Len(call.arg.probs) : call.arg.probs[i].label /= <<>>
     /\ \A i, j \in 1..Len(call.arg.probs) :
           i /= j => call.arg.probs[i].label /= call.arg.probs[j].label)
    => result[1] = format_emotion_result(RawProbMap(call.arg.probs))

\* C30: when loading the local model fails, the request that started the load
\* fails and the cache is left as it was (no handle of a running or failed
\* load is ever in it), so the next local transcription that finds the cache
\* empty starts a load again.
C30_FailedLoadNotCached ==
    /\ [](\A s \in Slots : slot[s].pc = "load" => cached_model /= slot[s].load_id)
    /\ [][\A s \in Slots :
            /\ (slot[s].pc = "load" /\ slot'[s].pc = "idle") =>
                  /\ out'.rid = slot[s].rid
                  /\ out'.status = 500
                  /\ cached_model' = cached_model
            /\ (/\ slot[s].pc = "read"
                /\ slot'[s].pc \in {"load", "transcribe"}
                /\ cached_model = 0) =>
                  /\ slot'[s].pc = "load"
                  /\ loads' = loads + 1
                  /\ slot'[s].load_id = loads']_vars

\* The first request's load failed; the second request, arriving after it,
\* loaded the model again and has it in the cache.
C30_Witness ==
    \E s \in Slots :
        /\ slot[s].pc = "transcribe"
        /\ slot[s].rid = 2
        /\ ~slot[s].conc
        /\ slot[s].load_id = 2
        /\ loads = 2
        /\ cached_model = 2

====
